---------------------------- MODULE Spec2Model ----------------------------
(***************************************************************************)
(* State-machine model of frontend/app.js of ai-portfolio-analyzer: the    *)
(* localStorage-backed holdings store, the portfolio reconciler of         *)
(* loadPortfolio, the selection / news panel, and the fire-and-forget      *)
(* panel refreshes.  Every await of the source is a point where the        *)
(* operation is parked in a set of requests in flight; the code between    *)
(* two awaits runs as one atomic action (one event-loop task).             *)
(*                                                                         *)
(* Strings typed by the user are sequences of one-character strings, so    *)
(* that trim(), toUpperCase() and parseFloat() are computed.  Numbers are  *)
(* integers; a JavaScript number that may be NaN is a record               *)
(* [nan, v].  daily_change is kept as the exact numerator over 100 and     *)
(* pl_percent as an exact fraction, since the model has no floats.         *)
(***************************************************************************)
EXTENDS Integers, Sequences, FiniteSets, TLC

\* Number of user- or timer-initiated operations a behaviour may start.
MaxOps == 3
\* The same, for the specification of the store operations alone.
MaxStoreOps == 2
\* The same, for the specification of the refreshes.
MaxRefreshOps == 2
\* Timer ticks of loadPortfolio in the specification of the reconciler.
MaxTicks == 1
\* Operations started in the specification of the selection.
MaxSelectOps == 3

(***************************************************************************)
(* Strings and numbers                                                     *)
(***************************************************************************)
Lower == <<"a", "l", "p", "s", "t">>
Upper == <<"A", "L", "P", "S", "T">>
Digits == <<"0", "1", "2", "3", "4", "5", "6", "7", "8", "9">>
IsSpace(c) == c = " "

RECURSIVE IndexIn(_, _, _)
IndexIn(c, seq, i) ==
    IF i > Len(seq) THEN 0
    ELSE IF seq[i] = c THEN i ELSE IndexIn(c, seq, i + 1)

\* String.prototype.toUpperCase, character by character
ToUpperChar(c) == LET i == IndexIn(c, Lower, 1) IN IF i = 0 THEN c ELSE Upper[i]
ToUpperCase(s) == [i \in 1..Len(s) |-> ToUpperChar(s[i])]

\* String.prototype.trim: strips white space at both ends
RECURSIVE TrimStart(_)
TrimStart(s) ==
    IF s = <<>> THEN <<>>
    ELSE IF IsSpace(Head(s)) THEN TrimStart(Tail(s)) ELSE s
RECURSIVE TrimEnd(_)
TrimEnd(s) ==
    IF s = <<>> THEN <<>>
    ELSE IF IsSpace(s[Len(s)]) THEN TrimEnd(SubSeq(s, 1, Len(s) - 1)) ELSE s
Trim(s) == TrimEnd(TrimStart(s))

\* A JavaScript number: NaN or an integer value
NaN == [nan |-> TRUE, v |-> 0]
Num(n) == [nan |-> FALSE, v |-> n]

\* Value of the longest run of digits at the start of s, and its length
RECURSIVE DigitRun(_, _, _)
DigitRun(s, acc, n) ==
    IF s = <<>> \/ IndexIn(Head(s), Digits, 1) = 0 THEN <<acc, n>>
    ELSE DigitRun(Tail(s), acc * 10 + (IndexIn(Head(s), Digits, 1) - 1), n + 1)

\* parseFloat: skips leading white space, reads an optional sign and the
\* longest numeric prefix, NaN when there is none (the inputs of the model
\* carry no fraction or exponent)
ParseFloat(s) ==
    LET t == TrimStart(s)
        neg == t # <<>> /\ Head(t) = "-"
        signed == t # <<>> /\ Head(t) \in {"-", "+"}
        body == IF signed THEN Tail(t) ELSE t
        run == DigitRun(body, 0, 0)
    IN IF run[2] = 0 THEN NaN
       ELSE Num(IF neg THEN 0 - run[1] ELSE run[1])

\* Mutant: the default is taken for NaN only (isNaN(x) ? d : x)
OrElseNaN(x, d) == IF x.nan THEN d ELSE x.v

\* x || d for a number x: NaN and 0 are falsy
OrElse(x, d) == IF x.nan \/ x.v = 0 THEN d ELSE x.v


(***************************************************************************)
(* Local Holdings Store: a portfolio is the object stored under            *)
(* PORTFOLIO_KEY, held as the sequence of its entries in key order         *)
(* (Object.keys gives string keys in insertion order).                     *)
(***************************************************************************)
NoSymbol == <<>>            \* null / '' : no symbol
Keys(p) == [i \in 1..Len(p) |-> p[i].symbol]
KeySet(p) == {p[i].symbol : i \in 1..Len(p)}
Has(p, symbol) == symbol \in KeySet(p)
Entry(p, symbol) == p[CHOOSE i \in 1..Len(p) : p[i].symbol = symbol]

\* portfolio[symbol] = {shares, cost_average}: overwrites in place, or appends
Put(p, symbol, shares, costAverage) ==
    LET e == [symbol |-> symbol, shares |-> shares, cost_average |-> costAverage]
    IN IF Has(p, symbol)
       THEN [i \in 1..Len(p) |-> IF p[i].symbol = symbol THEN e ELSE p[i]]
       ELSE Append(p, e)

\* delete portfolio[symbol]
Delete(p, symbol) == SelectSeq(p, LAMBDA e : e.symbol # symbol)

(***************************************************************************)
(* Portfolio reconciler (the body of loadPortfolio after the fetch)        *)
(***************************************************************************)
Undefined == NaN            \* a missing field: falsy like NaN
EmptyQuote == [price |-> Undefined, change_percent |-> Undefined, name |-> <<>>]

\* priceData.prices?.[symbol] || {}
Live(priceData, symbol) ==
    IF symbol \in DOMAIN priceData THEN priceData[symbol] ELSE EmptyQuote

\* Mutant: pl is value - costBasis whatever the cost basis
HoldingViewUngatedPl(local, live) ==
    LET price == OrElse(live.price, 0)
        value == price * local.shares
        costBasis == local.cost_average * local.shares
    IN [symbol |-> local.symbol,
        name |-> IF live.name = <<>> THEN local.symbol ELSE live.name,
        shares |-> local.shares,
        cost_average |-> local.cost_average,
        price |-> price,
        value |-> value,
        pl |-> value - costBasis,
        pl_percent |-> IF costBasis > 0
                       THEN [num |-> (value - costBasis) * 100, den |-> costBasis]
                       ELSE [num |-> 0, den |-> 1],
        change_percent |-> OrElse(live.change_percent, 0)]

\* One element of symbols.map(...): the view model of one holding
HoldingView(local, live) ==
    LET price == OrElse(live.price, 0)
        value == price * local.shares
        costBasis == local.cost_average * local.shares
    IN [symbol |-> local.symbol,
        name |-> IF live.name = <<>> THEN local.symbol ELSE live.name,
        shares |-> local.shares,
        cost_average |-> local.cost_average,
        price |-> price,
        value |-> value,
        pl |-> IF costBasis > 0 THEN value - costBasis ELSE 0,
        pl_percent |-> IF costBasis > 0
                       THEN [num |-> (value - costBasis) * 100, den |-> costBasis]
                       ELSE [num |-> 0, den |-> 1],
        change_percent |-> OrElse(live.change_percent, 0)]

Holdings(localPortfolio, priceData) ==
    [i \in 1..Len(localPortfolio) |->
        HoldingView(localPortfolio[i], Live(priceData, localPortfolio[i].symbol))]

\* dayChange of one holding, times 100: change_percent / 100 * value
DayChange(h) == h.change_percent * h.value

\* The running totals totalValue, dailyChange, totalPL after the first n holdings
RECURSIVE Totals(_, _)
Totals(hs, n) ==
    IF n = 0 THEN [total_value |-> 0, daily_change |-> 0, total_pl |-> 0]
    ELSE LET t == Totals(hs, n - 1)
         IN [total_value |-> t.total_value + hs[n].value,
             daily_change |-> t.daily_change + DayChange(hs[n]),
             total_pl |-> t.total_pl + hs[n].pl]

Summary(hs) == Totals(hs, Len(hs))
ZeroSummary == [total_value |-> 0, daily_change |-> 0, total_pl |-> 0]


(***************************************************************************)
(* State                                                                   *)
(***************************************************************************)
VARIABLES
    localStorage,     \* the item under PORTFOLIO_KEY: [item, value]
    selectedSymbol,   \* the global selectedSymbol (NoSymbol: null)
    newsSection,      \* style.display of #newsSection
    newsList,         \* what renderNews last put in #newsList
    loadingOverlay,   \* #loadingOverlay has class 'active'
    holdingsGrid,     \* what renderHoldings last put in #holdingsGrid
    summary,          \* what updatePortfolioSummary last displayed
    alerts,           \* the alert() messages shown so far
    stockReqs,        \* addStock calls awaiting fetch(/api/stock/..)
    priceReqs,        \* loadPortfolio calls awaiting fetch(/api/portfolio/prices)
    newsReqs,         \* selectStock calls awaiting fetch(/api/news/..)
    panelReqs,        \* loadSectors / loadNews / ... calls awaiting their fetch
    panels,           \* content of #sectorsGrid, #newsScroll, #marketFeed, #aiAnalysisContent
    nextId,           \* number given to the next call that awaits or renders
    ops,              \* operations started so far (bounded by MaxOps)
    resolvedOrder,    \* history: per panel, the call whose response resolved last, and the latest call resolved
    seenAtCall,       \* history: the stored portfolio when each pending addStock was called
    overlapped        \* history: an addStock wrote back after another write landed during its wait

vars == <<localStorage, selectedSymbol, newsSection, newsList, loadingOverlay,
          holdingsGrid, summary, alerts, stockReqs, priceReqs, newsReqs,
          panelReqs, panels, nextId, ops, resolvedOrder, seenAtCall, overlapped>>

selectionVars == <<selectedSymbol, newsSection, newsList>>
panelVars == <<panelReqs, panels>>
historyVars == <<seenAtCall, overlapped>>

PanelNames == {"sectorsGrid", "newsScroll", "marketFeed", "aiAnalysisContent"}

\* alert(text), with the symbol the text names
Alert(text, symbol) == [text |-> text, symbol |-> symbol]

\* getLocalPortfolio: data ? JSON.parse(data) : {}
GetLocalPortfolio ==
    IF localStorage.item THEN localStorage.value ELSE <<>>

\* saveLocalPortfolio: replaces the whole item
SaveLocalPortfolio(portfolio) ==
    localStorage' = [item |-> TRUE, value |-> portfolio]

\* History: the response of call id for panel p has just resolved
Resolved(p, id) ==
    [resolvedOrder EXCEPT ![p] = [last |-> id, max |-> IF id > @.max THEN id ELSE @.max]]

\* The symbols that have a card in #holdingsGrid (their onclick handlers exist)
Cards == {holdingsGrid.holdings[i].symbol : i \in 1..Len(holdingsGrid.holdings)}

\* renderHoldings(holdings) as called by the loadPortfolio numbered id
RenderHoldings(holdings, id, selected) ==
    holdingsGrid' =
        IF holdings = <<>>
        THEN [kind |-> "empty", holdings |-> <<>>, from |-> id, selected |-> NoSymbol]
        ELSE [kind |-> "cards", holdings |-> holdings, from |-> id,
              selected |-> IF \E i \in 1..Len(holdings) : holdings[i].symbol = selected
                           THEN selected ELSE NoSymbol]

\* loadPortfolio up to its first await, on the stored portfolio p: renders the
\* empty state at once, or parks at the prices request; awaiter is the
\* caller that awaits it ("addStock" hides the overlay when it finishes)
LoadPortfolio(p, selected, awaiter) ==
    /\ nextId' = nextId + 1
    /\ IF p = <<>>
       THEN /\ summary' = ZeroSummary
            /\ RenderHoldings(<<>>, nextId, selected)
            /\ resolvedOrder' = Resolved("holdingsGrid", nextId)
            /\ UNCHANGED priceReqs
       ELSE /\ priceReqs' = priceReqs \cup
                   {[id |-> nextId, localPortfolio |-> p, awaitedBy |-> awaiter]}
            /\ UNCHANGED <<summary, holdingsGrid, resolvedOrder>>

(***************************************************************************)
(* Init: the page right after the DOMContentLoaded handler returned, with  *)
(* nothing stored: loadPortfolio (call 1) rendered the empty state,        *)
(* loadSectors (2), loadNews (3) and loadMarketContext (4) await.  The     *)
(* page's markup is taken to hold every element the script looks up, with  *)
(* #newsSection hidden until selectStock shows it.                         *)
(***************************************************************************)
InitialPanels == [p \in PanelNames |-> [kind |-> "initial", from |-> 0]]

Init ==
    /\ localStorage = [item |-> FALSE, value |-> <<>>]
    /\ selectedSymbol = NoSymbol
    /\ newsSection = "none"
    /\ newsList = [symbol |-> NoSymbol, from |-> 0]
    /\ loadingOverlay = FALSE
    /\ holdingsGrid = [kind |-> "empty", holdings |-> <<>>, from |-> 1,
                       selected |-> NoSymbol]
    /\ summary = ZeroSummary
    /\ alerts = <<>>
    /\ stockReqs = {}
    /\ priceReqs = {}
    /\ newsReqs = {}
    /\ panelReqs = {[id |-> 2, op |-> "loadSectors"], [id |-> 3, op |-> "loadNews"],
                    [id |-> 4, op |-> "loadMarketContext"]}
    /\ panels = InitialPanels
    /\ nextId = 5
    /\ ops = 0
    /\ resolvedOrder = [p \in PanelNames \cup {"holdingsGrid"} |->
                           IF p = "holdingsGrid" THEN [last |-> 1, max |-> 1]
                           ELSE [last |-> 0, max |-> 0]]
    /\ seenAtCall = <<>>
    /\ overlapped = FALSE

(***************************************************************************)
(* addStock                                                                *)
(***************************************************************************)
\* addStock up to its await: the three input values are what the user typed
AddStock(symbolValue, sharesValue, costValue) ==
    LET symbol == ToUpperCase(Trim(symbolValue))
        shares == OrElse(ParseFloat(sharesValue), 1)
        costAverage == OrElse(ParseFloat(costValue), 0)
    IN /\ ops' = ops + 1
       /\ IF symbol = <<>>
          THEN /\ alerts' = Append(alerts, Alert("Please enter a stock symbol", NoSymbol))
               /\ UNCHANGED <<loadingOverlay, stockReqs, nextId, seenAtCall>>
          ELSE /\ loadingOverlay' = TRUE
               /\ stockReqs' = stockReqs \cup
                     {[id |-> nextId, symbol |-> symbol, shares |-> shares,
                       costAverage |-> costAverage]}
               /\ nextId' = nextId + 1
               /\ seenAtCall' = [i \in DOMAIN seenAtCall \cup {nextId} |->
                                   IF i = nextId THEN GetLocalPortfolio
                                   ELSE seenAtCall[i]]
               /\ UNCHANGED alerts
       /\ UNCHANGED <<localStorage, selectionVars, holdingsGrid, summary,
                      priceReqs, newsReqs, panelVars, resolvedOrder, overlapped>>

Forget(f, id) == [i \in DOMAIN f \ {id} |-> f[i]]

\* Mutant: the portfolio is read before the await and written back after it
AddStockValidatedStaleRead(r) ==
    /\ r \in stockReqs
    /\ stockReqs' = stockReqs \ {r}
    /\ LET portfolio == Put(seenAtCall[r.id], r.symbol, r.shares, r.costAverage)
       IN /\ SaveLocalPortfolio(portfolio)
          /\ LoadPortfolio(portfolio, selectedSymbol, "addStock")
    /\ overlapped' = (overlapped \/ seenAtCall[r.id] # GetLocalPortfolio)
    /\ seenAtCall' = Forget(seenAtCall, r.id)
    /\ UNCHANGED <<selectionVars, loadingOverlay, alerts, newsReqs, panelVars, ops>>

\* The validation response is ok: store the holding, then await loadPortfolio()
AddStockValidated(r) ==
    /\ r \in stockReqs
    /\ stockReqs' = stockReqs \ {r}
    /\ LET portfolio == Put(GetLocalPortfolio, r.symbol, r.shares, r.costAverage)
       IN /\ SaveLocalPortfolio(portfolio)
          /\ LoadPortfolio(portfolio, selectedSymbol, "addStock")
    /\ overlapped' = (overlapped \/ seenAtCall[r.id] # GetLocalPortfolio)
    /\ seenAtCall' = Forget(seenAtCall, r.id)
    /\ UNCHANGED <<selectionVars, loadingOverlay, alerts, newsReqs, panelVars, ops>>

\* Mutant: the holding is saved before response.ok is looked at
AddStockRejectedAfterSave(r, message) ==
    /\ r \in stockReqs
    /\ stockReqs' = stockReqs \ {r}
    /\ SaveLocalPortfolio(Put(GetLocalPortfolio, r.symbol, r.shares, r.costAverage))
    /\ alerts' = Append(alerts, Alert(message, r.symbol))
    /\ loadingOverlay' = FALSE
    /\ seenAtCall' = Forget(seenAtCall, r.id)
    /\ UNCHANGED <<selectionVars, holdingsGrid, summary, priceReqs,
                   newsReqs, panelVars, nextId, ops, resolvedOrder, overlapped>>

\* The validation response is not ok, or the fetch failed: alert(error.message)
AddStockRejected(r, message) ==
    /\ r \in stockReqs
    /\ stockReqs' = stockReqs \ {r}
    /\ alerts' = Append(alerts, Alert(message, r.symbol))
    /\ loadingOverlay' = FALSE
    /\ seenAtCall' = Forget(seenAtCall, r.id)
    /\ UNCHANGED <<localStorage, selectionVars, holdingsGrid, summary, priceReqs,
                   newsReqs, panelVars, nextId, ops, resolvedOrder, overlapped>>

(***************************************************************************)
(* updateHolding and removeStock (buttons of a rendered card)              *)
(***************************************************************************)
\* Mutant: the check is shares < 0, so zero shares pass
UpdateHoldingZeroPasses(symbol, sharesValue, costValue) ==
    LET shares == OrElse(ParseFloat(sharesValue), 0)
        costAverage == OrElse(ParseFloat(costValue), 0)
    IN /\ symbol \in Cards
       /\ ops' = ops + 1
       /\ IF shares < 0
          THEN /\ alerts' = Append(alerts, Alert("Shares must be greater than 0", NoSymbol))
               /\ UNCHANGED <<localStorage, holdingsGrid, summary, priceReqs,
                              nextId, resolvedOrder>>
          ELSE /\ LET portfolio == Put(GetLocalPortfolio, symbol, shares, costAverage)
                  IN /\ SaveLocalPortfolio(portfolio)
                     /\ LoadPortfolio(portfolio, selectedSymbol, "updateHolding")
               /\ UNCHANGED alerts
       /\ UNCHANGED <<selectionVars, loadingOverlay, stockReqs, newsReqs,
                      panelVars, historyVars>>

UpdateHolding(symbol, sharesValue, costValue) ==
    LET shares == OrElse(ParseFloat(sharesValue), 0)
        costAverage == OrElse(ParseFloat(costValue), 0)
    IN /\ symbol \in Cards
       /\ ops' = ops + 1
       /\ IF shares <= 0
          THEN /\ alerts' = Append(alerts, Alert("Shares must be greater than 0", NoSymbol))
               /\ UNCHANGED <<localStorage, holdingsGrid, summary, priceReqs,
                              nextId, resolvedOrder>>
          ELSE /\ LET portfolio == Put(GetLocalPortfolio, symbol, shares, costAverage)
                  IN /\ SaveLocalPortfolio(portfolio)
                     /\ LoadPortfolio(portfolio, selectedSymbol, "updateHolding")
               /\ UNCHANGED alerts
       /\ UNCHANGED <<selectionVars, loadingOverlay, stockReqs, newsReqs,
                      panelVars, historyVars>>

\* Mutant: the selection is cleared but the news section stays open
RemoveStockKeepsNews(symbol, confirmed) ==
    /\ symbol \in Cards
    /\ ops' = ops + 1
    /\ IF ~confirmed
       THEN UNCHANGED <<localStorage, selectedSymbol, holdingsGrid,
                        summary, priceReqs, nextId, resolvedOrder>>
       ELSE LET portfolio == Delete(GetLocalPortfolio, symbol)
                selected == IF selectedSymbol = symbol THEN NoSymbol
                            ELSE selectedSymbol
            IN /\ SaveLocalPortfolio(portfolio)
               /\ selectedSymbol' = selected
               /\ LoadPortfolio(portfolio, selected, "removeStock")
    /\ UNCHANGED <<newsSection, newsList, loadingOverlay, alerts, stockReqs,
                   newsReqs, panelVars, historyVars>>

\* confirmed: the answer to confirm(`Remove ${symbol} from portfolio?`)
RemoveStock(symbol, confirmed) ==
    /\ symbol \in Cards
    /\ ops' = ops + 1
    /\ IF ~confirmed
       THEN UNCHANGED <<localStorage, selectedSymbol, newsSection, holdingsGrid,
                        summary, priceReqs, nextId, resolvedOrder>>
       ELSE LET portfolio == Delete(GetLocalPortfolio, symbol)
                selected == IF selectedSymbol = symbol THEN NoSymbol
                            ELSE selectedSymbol
            IN /\ SaveLocalPortfolio(portfolio)
               /\ selectedSymbol' = selected
               /\ newsSection' = IF selectedSymbol = symbol THEN "none"
                                 ELSE newsSection
               /\ LoadPortfolio(portfolio, selected, "removeStock")
    /\ UNCHANGED <<newsList, loadingOverlay, alerts, stockReqs, newsReqs,
                   panelVars, historyVars>>

(***************************************************************************)
(* loadPortfolio: the 30 s timer, and the response of the prices request   *)
(***************************************************************************)
LoadPortfolioTick ==
    /\ ops' = ops + 1
    /\ LoadPortfolio(GetLocalPortfolio, selectedSymbol, "timer")
    /\ UNCHANGED <<localStorage, selectionVars, loadingOverlay, alerts, stockReqs,
                   newsReqs, panelVars, historyVars>>

\* addStock's finally block, run when the loadPortfolio it awaits is over
AfterLoadPortfolio(r) ==
    loadingOverlay' = IF r.awaitedBy = "addStock" THEN FALSE ELSE loadingOverlay

\* Mutant: a response older than what is shown is dropped (coalescing refreshes)
PricesResolvedLatestOnly(r, priceData) ==
    /\ r \in priceReqs
    /\ priceReqs' = priceReqs \ {r}
    /\ IF r.id > holdingsGrid.from
       THEN LET holdings == Holdings(r.localPortfolio, priceData)
            IN /\ summary' = Summary(holdings)
               /\ RenderHoldings(holdings, r.id, selectedSymbol)
       ELSE UNCHANGED <<summary, holdingsGrid>>
    /\ resolvedOrder' = Resolved("holdingsGrid", r.id)
    /\ AfterLoadPortfolio(r)
    /\ UNCHANGED <<localStorage, selectionVars, alerts, stockReqs, newsReqs,
                   panelVars, nextId, ops, historyVars>>

\* The prices response resolved with priceData.prices = priceData
PricesResolved(r, priceData) ==
    /\ r \in priceReqs
    /\ priceReqs' = priceReqs \ {r}
    /\ LET holdings == Holdings(r.localPortfolio, priceData)
       IN /\ summary' = Summary(holdings)
          /\ RenderHoldings(holdings, r.id, selectedSymbol)
    /\ resolvedOrder' = Resolved("holdingsGrid", r.id)
    /\ AfterLoadPortfolio(r)
    /\ UNCHANGED <<localStorage, selectionVars, alerts, stockReqs, newsReqs,
                   panelVars, nextId, ops, historyVars>>

\* The fetch or response.json() failed: the catch block only logs
PricesFailed(r) ==
    /\ r \in priceReqs
    /\ priceReqs' = priceReqs \ {r}
    /\ AfterLoadPortfolio(r)
    /\ UNCHANGED <<localStorage, selectionVars, holdingsGrid, summary, alerts,
                   stockReqs, newsReqs, panelVars, nextId, ops, resolvedOrder,
                   historyVars>>

(***************************************************************************)
(* selectStock (click on a rendered card)                                  *)
(***************************************************************************)
SelectStock(symbol) ==
    /\ symbol \in Cards
    /\ ops' = ops + 1
    /\ selectedSymbol' = symbol
    /\ holdingsGrid' = [holdingsGrid EXCEPT !.selected = symbol]
    /\ loadingOverlay' = TRUE
    /\ newsReqs' = newsReqs \cup {[id |-> nextId, symbol |-> symbol]}
    /\ nextId' = nextId + 1
    /\ UNCHANGED <<localStorage, newsSection, newsList, summary, alerts, stockReqs,
                   priceReqs, panelVars, resolvedOrder, historyVars>>

\* The news response resolved: renderNews(data), show the section
NewsResolved(r) ==
    /\ r \in newsReqs
    /\ newsReqs' = newsReqs \ {r}
    /\ newsList' = [symbol |-> r.symbol, from |-> r.id]
    /\ newsSection' = "block"
    /\ loadingOverlay' = FALSE
    /\ UNCHANGED <<localStorage, selectedSymbol, holdingsGrid, summary, alerts,
                   stockReqs, priceReqs, panelVars, nextId, ops, resolvedOrder,
                   historyVars>>

\* The fetch or response.json() failed: logged, the overlay is hidden
NewsFailed(r) ==
    /\ r \in newsReqs
    /\ newsReqs' = newsReqs \ {r}
    /\ loadingOverlay' = FALSE
    /\ UNCHANGED <<localStorage, selectionVars, holdingsGrid, summary, alerts,
                   stockReqs, priceReqs, panelVars, nextId, ops, resolvedOrder,
                   historyVars>>


(***************************************************************************)
(* Panel refreshes: loadSectors, loadNews, loadMarketNews,                 *)
(* getPortfolioAnalysis and the loadMarketContext pre-fetch                *)
(***************************************************************************)
\* The element each operation renders into ("console": it only logs)
Target(op) ==
    CASE op = "loadSectors" -> "sectorsGrid"
      [] op = "loadNews" -> "newsScroll"
      [] op = "loadMarketNews" -> "marketFeed"
      [] op = "getPortfolioAnalysis" -> "aiAnalysisContent"
      [] op = "loadMarketContext" -> "console"

Show(op, kind, id) ==
    IF Target(op) = "console" THEN panels
    ELSE [panels EXCEPT ![Target(op)] = [kind |-> kind, from |-> id]]

\* The operation up to its await
Fetch(op) ==
    /\ ops' = ops + 1
    /\ panelReqs' = panelReqs \cup {[id |-> nextId, op |-> op]}
    /\ nextId' = nextId + 1
    /\ UNCHANGED <<localStorage, selectionVars, loadingOverlay, holdingsGrid,
                   summary, alerts, stockReqs, priceReqs, newsReqs,
                   resolvedOrder, historyVars>>

LoadSectors == Fetch("loadSectors") /\ UNCHANGED panels
LoadNews == Fetch("loadNews") /\ UNCHANGED panels
LoadMarketNews == Fetch("loadMarketNews") /\ UNCHANGED panels
LoadMarketContext == Fetch("loadMarketContext") /\ UNCHANGED panels
\* getPortfolioAnalysis first shows the container with a spinner
GetPortfolioAnalysis ==
    /\ Fetch("getPortfolioAnalysis")
    /\ panels' = Show("getPortfolioAnalysis", "loading", nextId)

\* What a resolved response can hold: a list to render, or an empty one
\* (getPortfolioAnalysis and loadMarketContext have no empty case)
Outcomes(op) ==
    IF op \in {"getPortfolioAnalysis", "loadMarketContext"} THEN {"data"}
    ELSE {"data", "empty"}

\* The response resolved and was decoded: the try block renders it
PanelResolved(r, kind) ==
    /\ r \in panelReqs
    /\ kind \in Outcomes(r.op)
    /\ panelReqs' = panelReqs \ {r}
    /\ panels' = Show(r.op, kind, r.id)
    /\ resolvedOrder' = IF Target(r.op) = "console" THEN resolvedOrder
                        ELSE Resolved(Target(r.op), r.id)
    /\ UNCHANGED <<localStorage, selectionVars, loadingOverlay, holdingsGrid,
                   summary, alerts, stockReqs, priceReqs, newsReqs, nextId, ops,
                   historyVars>>

\* Mutant: the catch block only logs
PanelFailedOnlyLogs(r) ==
    /\ r \in panelReqs
    /\ panelReqs' = panelReqs \ {r}
    /\ UNCHANGED <<localStorage, selectionVars, loadingOverlay, holdingsGrid,
                   summary, alerts, stockReqs, priceReqs, newsReqs, nextId, ops,
                   resolvedOrder, historyVars, panels>>

\* Mutant: one failure rejects every pending refresh (as under Promise.all)
PanelFailedRejectsAll(r) ==
    /\ r \in panelReqs
    /\ panelReqs' = {}
    /\ panels' = Show(r.op, "error", r.id)
    /\ UNCHANGED <<localStorage, selectionVars, loadingOverlay, holdingsGrid,
                   summary, alerts, stockReqs, priceReqs, newsReqs, nextId, ops,
                   resolvedOrder, historyVars>>

\* The fetch, the decoding (or !response.ok in getPortfolioAnalysis) failed:
\* the catch block logs and shows the "Could not load" placeholder
PanelFailed(r) ==
    /\ r \in panelReqs
    /\ panelReqs' = panelReqs \ {r}
    /\ panels' = Show(r.op, "error", r.id)
    /\ UNCHANGED <<localStorage, selectionVars, loadingOverlay, holdingsGrid,
                   summary, alerts, stockReqs, priceReqs, newsReqs, nextId, ops,
                   resolvedOrder, historyVars>>

(***************************************************************************)
(* Inputs and the specification of the holdings operations                 *)
(***************************************************************************)
TSLA == <<"T", "S", "L", "A">>
AAPL == <<"A", "A", "P", "L">>

\* What the user may have typed in #symbolInput
SymbolValues == {<<>>, <<" ">>, <<"t", "s", "l", "a">>,
                 <<" ", "a", "a", "p", "l", " ">>}
\* What the user may have typed in a number input
SharesValues == {<<>>, <<"0">>, <<"2">>, <<"-", "5">>}
CostValues == {<<>>, <<"0">>, <<"-", "3">>}

Quote(price, changePercent) ==
    [price |-> Num(price), change_percent |-> Num(changePercent), name |-> <<>>]
NoPrices == [s \in {} |-> EmptyQuote]
\* priceData.prices of a response with a quote for both symbols
Quotes == [s \in {TSLA, AAPL} |-> Quote(10, 5)]

\* The operations on holdings and the selection, under every interleaving of
\* their responses; the user types one of two symbols (or nothing)
Next ==
    \/ ops < MaxOps /\ \E s \in {<<>>, <<"t", "s", "l", "a">>,
                                  <<" ", "a", "a", "p", "l", " ">>} :
                           AddStock(s, <<"2">>, <<"3">>)
    \/ ops < MaxOps /\ \E s \in Cards, n \in {<<"0">>, <<"5">>} :
                           UpdateHolding(s, n, <<>>)
    \/ ops < MaxOps /\ \E s \in Cards, b \in BOOLEAN : RemoveStock(s, b)
    \/ ops < MaxOps /\ LoadPortfolioTick
    \/ ops < MaxOps /\ \E s \in Cards : SelectStock(s)
    \/ \E r \in stockReqs : AddStockValidated(r)
    \/ \E r \in stockReqs : AddStockRejected(r, "Failed to fetch")
    \/ \E r \in priceReqs : PricesResolved(r, Quotes)
    \/ \E r \in priceReqs : PricesFailed(r)
    \/ \E r \in newsReqs : NewsResolved(r)
    \/ \E r \in newsReqs : NewsFailed(r)

Spec == Init /\ [][Next]_vars

(***************************************************************************)
(* The store operations alone, with everything the user may type           *)
(***************************************************************************)
NextStore ==
    \/ ops < MaxStoreOps /\ \E s \in SymbolValues, n \in SharesValues,
                               c \in CostValues : AddStock(s, n, c)
    \/ ops < MaxStoreOps /\ \E s \in Cards, n \in SharesValues,
                               c \in CostValues : UpdateHolding(s, n, c)
    \/ ops < MaxStoreOps /\ \E s \in Cards, b \in BOOLEAN : RemoveStock(s, b)
    \/ \E r \in stockReqs : AddStockValidated(r)
    \/ \E r \in stockReqs : AddStockRejected(r, "Invalid symbol: ")
    \/ \E r \in priceReqs : PricesResolved(r, Quotes)
    \/ \E r \in priceReqs : PricesFailed(r)

SpecStore == Init /\ [][NextStore]_vars

(***************************************************************************)
(* The refreshes: a page opened on a portfolio stored by an earlier visit, *)
(* right after the DOMContentLoaded handler returned (loadPortfolio is     *)
(* call 1 and awaits its prices), then the timers and the two buttons      *)
(***************************************************************************)
StoredPortfolio == <<[symbol |-> TSLA, shares |-> 2, cost_average |-> 3]>>

InitRefresh ==
    /\ localStorage = [item |-> TRUE, value |-> StoredPortfolio]
    /\ selectedSymbol = NoSymbol
    /\ newsSection = "none"
    /\ newsList = [symbol |-> NoSymbol, from |-> 0]
    /\ loadingOverlay = FALSE
    /\ holdingsGrid = [kind |-> "initial", holdings |-> <<>>, from |-> 0,
                       selected |-> NoSymbol]
    /\ summary = ZeroSummary
    /\ alerts = <<>>
    /\ stockReqs = {}
    /\ priceReqs = {[id |-> 1, localPortfolio |-> StoredPortfolio,
                     awaitedBy |-> "timer"]}
    /\ newsReqs = {}
    /\ panelReqs = {[id |-> 2, op |-> "loadSectors"], [id |-> 3, op |-> "loadNews"],
                    [id |-> 4, op |-> "loadMarketContext"]}
    /\ panels = InitialPanels
    /\ nextId = 5
    /\ ops = 0
    /\ resolvedOrder = [p \in PanelNames \cup {"holdingsGrid"} |->
                           [last |-> 0, max |-> 0]]
    /\ seenAtCall = <<>>
    /\ overlapped = FALSE

NextRefresh ==
    \/ ops < MaxRefreshOps /\ LoadPortfolioTick
    \/ ops < MaxRefreshOps /\ LoadSectors
    \/ ops < MaxRefreshOps /\ LoadNews
    \/ ops < MaxRefreshOps /\ LoadMarketContext
    \/ ops < MaxRefreshOps /\ LoadMarketNews
    \/ ops < MaxRefreshOps /\ GetPortfolioAnalysis
    \/ ops < MaxRefreshOps /\ \E s \in Cards : SelectStock(s)
    \/ \E r \in priceReqs : PricesResolved(r, Quotes)
    \/ \E r \in priceReqs : PricesFailed(r)
    \/ \E r \in panelReqs, k \in {"data", "empty"} : PanelResolved(r, k)
    \/ \E r \in panelReqs : PanelFailed(r)
    \/ \E r \in newsReqs : NewsResolved(r)
    \/ \E r \in newsReqs : NewsFailed(r)

SpecRefresh == InitRefresh /\ [][NextRefresh]_vars

(***************************************************************************)
(* The selection: the page opened on the stored portfolio, then clicks on  *)
(* the cards and their remove buttons, one more symbol added, the timer,   *)
(* and every outcome of the requests                                       *)
(***************************************************************************)
\* error.message in addStock's catch: thrown on !response.ok, or fetch's own
ErrorMessages == {"Invalid symbol: ", "Failed to fetch"}

NextSelect ==
    \/ ops < MaxSelectOps /\ AddStock(<<" ", "a", "a", "p", "l", " ">>, <<"2">>, <<"3">>)
    \/ ops < MaxSelectOps /\ \E s \in Cards : RemoveStock(s, TRUE)
    \/ ops < MaxSelectOps /\ LoadPortfolioTick
    \/ ops < MaxSelectOps /\ \E s \in Cards : SelectStock(s)
    \/ \E r \in stockReqs : AddStockValidated(r)
    \/ \E r \in stockReqs, m \in ErrorMessages : AddStockRejected(r, m)
    \/ \E r \in priceReqs : PricesResolved(r, Quotes)
    \/ \E r \in priceReqs : PricesFailed(r)
    \/ \E r \in newsReqs : NewsResolved(r)
    \/ \E r \in newsReqs : NewsFailed(r)

SpecSelect == InitRefresh /\ [][NextSelect]_vars

(***************************************************************************)
(* The reconciler on every stored portfolio and price snapshot: the page   *)
(* is opened on any portfolio of up to two holdings, loadPortfolio is      *)
(* call 1; the responses carry any quotes                                  *)
(***************************************************************************)
Entries(symbol, costs) ==
    {[symbol |-> symbol, shares |-> n, cost_average |-> c] :
        n \in {2, -5}, c \in costs}
\* TSLA with every sign of cost; AAPL beside it with a positive cost
Portfolios ==
    LET first == Entries(TSLA, {0, 3, -3})
        second == Entries(AAPL, {3})
    IN {<<>>} \cup {<<e>> : e \in first \cup second}
              \cup {<<e, f>> : e \in first, f \in second}
              \cup {<<f, e>> : e \in first, f \in second}

QuoteValues ==
    {[price |-> p, change_percent |-> c, name |-> <<>>] :
        p \in {Undefined, Num(10)}, c \in {Undefined, Num(-2)}}
\* priceData.prices: a quote for some of the symbols
PriceSnapshots ==
    UNION {[S -> QuoteValues] : S \in SUBSET {TSLA, AAPL}}

InitReconcile ==
    /\ localStorage \in {[item |-> TRUE, value |-> p] : p \in Portfolios}
    /\ selectedSymbol = NoSymbol
    /\ newsSection = "none"
    /\ newsList = [symbol |-> NoSymbol, from |-> 0]
    /\ loadingOverlay = FALSE
    /\ holdingsGrid = IF localStorage.value = <<>>
                      THEN [kind |-> "empty", holdings |-> <<>>, from |-> 1,
                            selected |-> NoSymbol]
                      ELSE [kind |-> "initial", holdings |-> <<>>, from |-> 0,
                            selected |-> NoSymbol]
    /\ summary = ZeroSummary
    /\ alerts = <<>>
    /\ stockReqs = {}
    /\ priceReqs = IF localStorage.value = <<>> THEN {}
                   ELSE {[id |-> 1, localPortfolio |-> localStorage.value,
                          awaitedBy |-> "timer"]}
    /\ newsReqs = {}
    /\ panelReqs = {[id |-> 2, op |-> "loadSectors"], [id |-> 3, op |-> "loadNews"],
                    [id |-> 4, op |-> "loadMarketContext"]}
    /\ panels = InitialPanels
    /\ nextId = 5
    /\ ops = 0
    /\ resolvedOrder = [p \in PanelNames \cup {"holdingsGrid"} |->
                           IF p = "holdingsGrid" /\ localStorage.value = <<>>
                           THEN [last |-> 1, max |-> 1]
                           ELSE [last |-> 0, max |-> 0]]
    /\ seenAtCall = <<>>
    /\ overlapped = FALSE

NextReconcile ==
    \/ ops < MaxTicks /\ LoadPortfolioTick
    \/ \E r \in priceReqs, d \in PriceSnapshots : PricesResolved(r, d)
    \/ \E r \in priceReqs : PricesFailed(r)

SpecReconcile == InitReconcile /\ [][NextReconcile]_vars

(***************************************************************************)
(* Properties                                                              *)
(***************************************************************************)
\* The stored portfolio after the step (getLocalPortfolio in the next state)
StoredNext == GetLocalPortfolio'

\* The <<symbol, shares, cost_average>> of the rendered cards, in order
Shown(grid) ==
    [i \in 1..Len(grid.holdings) |->
        [symbol |-> grid.holdings[i].symbol, shares |-> grid.holdings[i].shares,
         cost_average |-> grid.holdings[i].cost_average]]

\* The entry of a symbol, as a sequence of zero or one element
EntryOf(p, symbol) == IF Has(p, symbol) THEN <<Entry(p, symbol)>> ELSE <<>>

\* C1: after any sequence of addStock, updateHolding and removeStock from an
\* empty store, every stored record has shares > 0 and cost_average >= 0.
C1_StoredRecordsValid ==
    \A i \in 1..Len(GetLocalPortfolio) :
        /\ GetLocalPortfolio[i].shares > 0
        /\ GetLocalPortfolio[i].cost_average >= 0

\* C2: whenever loadPortfolio renders the holdings, the rendered list holds
\* exactly the symbols stored at that moment, with their stored shares and
\* cost_average.
C2_RenderShowsCurrentStore ==
    [][holdingsGrid'.from # holdingsGrid.from
         => Shown(holdingsGrid') = StoredNext]_vars

\* C3 as stated: an addStock during whose wait another operation wrote the
\* store writes back what the store held when it was called plus its own
\* entry, so the other operation's update is lost.
C3_InterleavedUpdateLost ==
    [][\A r \in stockReqs :
          (AddStockValidated(r) /\ seenAtCall[r.id] # GetLocalPortfolio)
            => StoredNext = Put(seenAtCall[r.id], r.symbol, r.shares, r.costAverage)]_vars

\* C3 amended: no step loses another operation's update; every write to the
\* store changes the entry of one symbol and keeps every other entry as the
\* store held it just before the write.
C3_NoUpdateLost ==
    [][StoredNext # GetLocalPortfolio
         => \E s \in KeySet(GetLocalPortfolio) \cup KeySet(StoredNext) :
              \A t \in (KeySet(GetLocalPortfolio) \cup KeySet(StoredNext)) \ {s} :
                 EntryOf(StoredNext, t) = EntryOf(GetLocalPortfolio, t)]_vars

\* An addStock wrote back after another write landed during its wait, and the
\* entries of both operations are stored.
C3_BothUpdatesKept ==
    /\ overlapped
    /\ Has(GetLocalPortfolio, TSLA)
    /\ Has(GetLocalPortfolio, AAPL)

\* C4: overlapping refreshes of a panel are neither cancelled nor coalesced;
\* each renders when its own response resolves, so a panel that shows a
\* response shows the one that resolved last, whichever was sent last.
C4_LastResolvedShown ==
    /\ holdingsGrid.kind \in {"cards", "empty"}
         => holdingsGrid.from = resolvedOrder.holdingsGrid.last
    /\ \A p \in PanelNames :
         panels[p].kind \in {"data", "empty"}
           => panels[p].from = resolvedOrder[p].last

\* Nothing is pending, and the holdings and the sectors each show a response
\* that resolved after the response of a later call.
C4_OlderResponseWon ==
    /\ priceReqs = {}
    /\ panelReqs = {}
    /\ holdingsGrid.kind = "cards"
    /\ holdingsGrid.from < resolvedOrder.holdingsGrid.max
    /\ panels.sectorsGrid.kind = "data"
    /\ panels.sectorsGrid.from < resolvedOrder.sectorsGrid.max

Blocked ==
    /\ Len(alerts') = Len(alerts) + 1
    /\ UNCHANGED <<localStorage, stockReqs, priceReqs, newsReqs, panelReqs>>

\* C6 as stated: an add or an update whose input has an empty symbol or
\* non-positive shares is blocked with an alert: no request, store unchanged.
C6_InvalidInputBlocked ==
    [][/\ \A s \in SymbolValues, n \in SharesValues, c \in CostValues :
            (AddStock(s, n, c) /\ (s = <<>> \/ n \in {<<"0">>, <<"-", "5">>}))
              => Blocked
       /\ \A s \in Cards, n \in SharesValues, c \in CostValues :
            (UpdateHolding(s, n, c) /\ n \in {<<"0">>, <<"-", "5">>})
              => Blocked]_vars

\* C6 amended: addStock with a symbol that is empty once trimmed, and
\* updateHolding with shares that are zero, negative or not a number, are
\* blocked with an alert: no request is sent and the store is unchanged.
C6_ValidationBlocks ==
    [][Len(alerts') # Len(alerts) \/ localStorage' # localStorage
         \/ stockReqs' # stockReqs
         => /\ \A s \in {<<>>, <<" ">>}, n \in SharesValues, c \in CostValues :
                 AddStock(s, n, c) => Blocked
            /\ \A s \in Cards, n \in {<<>>, <<"0">>, <<"-", "5">>}, c \in CostValues :
                 UpdateHolding(s, n, c) => Blocked]_vars

\* updateHolding was blocked: its alert is shown, the holding stored by the
\* earlier addStock is as it was and no request is pending.
C6_UpdateBlocked ==
    /\ \E i \in 1..Len(alerts) : alerts[i].text = "Shares must be greater than 0"
    /\ GetLocalPortfolio = <<[symbol |-> TSLA, shares |-> 2, cost_average |-> 0]>>
    /\ stockReqs = {}
    /\ priceReqs = {}

\* C7 as stated: a failed request of loadPortfolio, selectStock, loadSectors,
\* loadNews, loadMarketNews or getPortfolioAnalysis leaves the panel of the
\* operation showing a "could not load" placeholder.
C7_FailureShowsPlaceholder ==
    [][/\ \A r \in priceReqs : PricesFailed(r) => holdingsGrid'.kind = "error"
       /\ \A r \in newsReqs : NewsFailed(r) => newsList' # newsList
       /\ \A r \in panelReqs :
            (PanelFailed(r) /\ r.op # "loadMarketContext")
              => panels'[Target(r.op)] = [kind |-> "error", from |-> r.id]]_vars

\* C7 amended: every one of these failures is caught and ends its operation;
\* loadSectors, loadNews, loadMarketNews and getPortfolioAnalysis then show
\* their "could not load" placeholder, while loadPortfolio and selectStock
\* only log and leave their panel as it was (selectStock hides the overlay).
C7_FailureCaught ==
    [][/\ \A r \in priceReqs :
            PricesFailed(r)
              => /\ r \notin priceReqs'
                 /\ UNCHANGED <<holdingsGrid, summary, alerts>>
       /\ \A r \in newsReqs :
            NewsFailed(r)
              => /\ r \notin newsReqs'
                 /\ ~loadingOverlay'
                 /\ UNCHANGED <<newsList, newsSection, alerts>>
       /\ \A r \in panelReqs :
            (PanelFailed(r) /\ r.op # "loadMarketContext")
              => /\ r \notin panelReqs'
                 /\ panels'[Target(r.op)] = [kind |-> "error", from |-> r.id]
                 /\ UNCHANGED alerts]_vars

\* The sectors show their placeholder after a failed loadSectors, and a
\* selectStock failed: a card is selected, its request is over, the overlay is
\* hidden and no news was rendered.
C7_FailuresSeen ==
    /\ panels.sectorsGrid.kind = "error"
    /\ holdingsGrid.kind = "cards"
    /\ priceReqs = {}
    /\ newsReqs = {}
    /\ selectedSymbol # NoSymbol
    /\ newsList.symbol = NoSymbol
    /\ ~loadingOverlay

\* The other panels' content and pending requests
OthersUntouched(p) ==
    /\ \A q \in PanelNames \ {p} : panels'[q] = panels[q]
    /\ p # "holdingsGrid" => UNCHANGED <<holdingsGrid, summary, priceReqs>>
    /\ UNCHANGED <<newsList, newsSection, newsReqs>>

\* C8: a failed refresh of the portfolio, the sectors, the news or the market
\* context leaves what every other panel displays unchanged, and leaves every
\* other pending refresh pending, so that it still renders.
C8_FailureIsLocal ==
    [][/\ \A r \in priceReqs :
            PricesFailed(r)
              => OthersUntouched("holdingsGrid") /\ UNCHANGED panelReqs
       /\ \A r \in panelReqs :
            PanelFailed(r)
              => OthersUntouched(Target(r.op)) /\ panelReqs' = panelReqs \ {r}]_vars

\* The sectors show their placeholder, and a loadPortfolio and a loadNews
\* called after the failed loadSectors have rendered.
C8_LaterRefreshRendered ==
    /\ panels.sectorsGrid.kind = "error"
    /\ holdingsGrid.kind = "cards"
    /\ holdingsGrid.from > panels.sectorsGrid.from
    /\ panels.newsScroll.kind = "data"
    /\ panels.newsScroll.from > panels.sectorsGrid.from

\* What C9 expects of each typed value
C9_Symbol(s) == IF s = <<"t", "s", "l", "a">> THEN TSLA ELSE AAPL
C9_Number(n, default) ==
    CASE n \in {<<>>, <<"0">>} -> default
      [] n = <<"2">> -> 2
      [] n = <<"-", "3">> -> -3
      [] n = <<"-", "5">> -> -5

\* C9: addStock with a non-empty symbol whose validation succeeds stores the
\* record under the trimmed, upper-cased symbol, shares being 1 when the typed
\* shares are zero or no number and cost_average 0 when the typed cost is zero
\* or no number: the call parks these values, and the validated call stores them.
C9_AddStoresDefaults ==
    [][stockReqs' # stockReqs
         => /\ \A s \in SymbolValues \ {<<>>, <<" ">>}, n \in SharesValues,
                  c \in CostValues :
                 AddStock(s, n, c)
                   => stockReqs' \ stockReqs =
                        {[id |-> nextId, symbol |-> C9_Symbol(s),
                          shares |-> C9_Number(n, 1),
                          costAverage |-> C9_Number(c, 0)]}
            /\ \A r \in stockReqs :
                 AddStockValidated(r)
                   => EntryOf(StoredNext, r.symbol) =
                        <<[symbol |-> r.symbol, shares |-> r.shares,
                           cost_average |-> r.costAverage]>>]_vars

\* "tsla" with shares 0 and cost 0 is stored as TSLA -> {shares: 1, cost_average: 0}
C9_TslaStored ==
    GetLocalPortfolio = <<[symbol |-> TSLA, shares |-> 1, cost_average |-> 0]>>

\* Sum of a sequence of integers
RECURSIVE SumSeq(_)
SumSeq(q) == IF q = <<>> THEN 0 ELSE Head(q) + SumSeq(Tail(q))

\* A field of the quote of a symbol, 0 when the quote or the field is missing
C10_Field(d, symbol, field) ==
    IF symbol \notin DOMAIN d \/ d[symbol][field].nan THEN 0
    ELSE d[symbol][field].v

\* What C10 says of holdings hs and summary sm built from portfolio p and quotes d
C10_Reconciled(p, d, hs, sm) ==
    /\ Len(hs) = Len(p)
    /\ \A i \in 1..Len(p) :
         LET cost == p[i].cost_average * p[i].shares
         IN /\ hs[i].symbol = p[i].symbol
            /\ hs[i].shares = p[i].shares
            /\ hs[i].cost_average = p[i].cost_average
            /\ hs[i].price = C10_Field(d, p[i].symbol, "price")
            /\ hs[i].change_percent = C10_Field(d, p[i].symbol, "change_percent")
            /\ hs[i].value = hs[i].price * p[i].shares
            /\ hs[i].pl = IF cost > 0 THEN hs[i].value - cost ELSE 0
    /\ sm.total_value = SumSeq([i \in 1..Len(hs) |-> hs[i].value])
    /\ sm.total_pl = SumSeq([i \in 1..Len(hs) |-> hs[i].pl])
    \* daily_change is held times 100
    /\ sm.daily_change =
         SumSeq([i \in 1..Len(hs) |-> hs[i].change_percent * hs[i].value])

\* C10: for every stored portfolio and price snapshot, loadPortfolio renders
\* one view model per stored symbol with value = price * shares, pl = value -
\* cost_average * shares when that cost is positive and 0 otherwise, a missing
\* price or change_percent counted as 0, and a summary whose total_value,
\* total_pl and daily_change are the sums over the holdings.
C10_ReconcilerCorrect ==
    [][\A r \in priceReqs \ priceReqs' :
          \A d \in PriceSnapshots :
             PricesResolved(r, d)
               => C10_Reconciled(GetLocalPortfolio, d, holdingsGrid'.holdings,
                                 summary')]_vars

\* Two holdings are rendered: one without a price, one with a loss, and the
\* summary is not zero.
C10_MixedPortfolioRendered ==
    /\ Len(holdingsGrid.holdings) = 2
    /\ \E i, j \in 1..2 :
         /\ holdingsGrid.holdings[i].price = 0
         /\ holdingsGrid.holdings[i].cost_average > 0
         /\ holdingsGrid.holdings[j].pl > 0
         /\ holdingsGrid.holdings[j].change_percent < 0
    /\ summary.total_pl > 0
    /\ summary.daily_change < 0

\* C11: when addStock's validation request returns a non-success status or
\* fails on the network, one alert is shown (the error's message), the stored
\* portfolio is left as it was, and no portfolio refresh is started: no prices
\* request, no render of the holdings or of the summary.
C11_RejectedAddLeavesStore ==
    [][\A r \in stockReqs \ stockReqs', m \in ErrorMessages :
          AddStockRejected(r, m)
            => /\ alerts' = Append(alerts, Alert(m, r.symbol))
               /\ localStorage' = localStorage
               /\ priceReqs' = priceReqs
               /\ nextId' = nextId
               /\ holdingsGrid' = holdingsGrid
               /\ summary' = summary]_vars

\* Both kinds of failure were alerted for AAPL, which is not stored, and
\* nothing awaits prices
C11_BothFailuresAlerted ==
    /\ \A m \in ErrorMessages :
         \E i \in 1..Len(alerts) : alerts[i] = Alert(m, AAPL)
    /\ ~Has(GetLocalPortfolio, AAPL)
    /\ GetLocalPortfolio = StoredPortfolio
    /\ priceReqs = {}

\* C12: in every reachable state the selected symbol is null or a symbol of
\* the stored portfolio.
C12_SelectionInStore ==
    selectedSymbol = NoSymbol \/ Has(GetLocalPortfolio, selectedSymbol)

\* The news shown in #newsList is the response fetched for symbol
NewsShownFor(symbol) == newsList.symbol = symbol /\ newsList.from > 0

\* C13: whenever no news request is in flight and the news section is
\* visible, the selected symbol is non-null and the news shown is the response
\* fetched for the selected symbol.
C13_NewsMatchesSelection ==
    (newsReqs = {} /\ newsSection = "block")
        => selectedSymbol # NoSymbol /\ NewsShownFor(selectedSymbol)

\* The addStock and selectStock calls that called showLoading and have not
\* reached their finally block: awaiting the validation, the news, or the
\* loadPortfolio that addStock awaits
PendingOverlayOps ==
    stockReqs \cup newsReqs \cup {r \in priceReqs : r.awaitedBy = "addStock"}

\* C14: the loading overlay is active whenever an addStock or selectStock
\* call that showed it is still in flight.
C14_OverlayWhilePending ==
    PendingOverlayOps # {} => loadingOverlay

=============================================================================
